---- MODULE Spec2Model ----
(***************************************************************************)
(* Model of the ChainTrack AI ML prototype service (src/ml_service/main.py):*)
(* the import-time loading of the model artifact, the /ml/anomaly handler   *)
(* with its three scoring branches, and the health endpoint.                *)
(*                                                                          *)
(* Python floats are modelled as exact rationals <<n, d>> (d > 0, lowest    *)
(* terms); NaN and infinities are not modelled.  Optional[T] values are     *)
(* modelled as sequences: <<>> is None and <<v>> is the value v.            *)
(***************************************************************************)
EXTENDS Integers, Sequences, FiniteSets, TLC

VARIABLES pklFile, jsonFile, pc, MODEL, resp, firstResp, health

vars == <<pklFile, jsonFile, pc, MODEL, resp, firstResp, health>>

----------------------------------------------------------------------------
(* Exact rational arithmetic standing for float arithmetic.                *)

IAbs(a) == IF a < 0 THEN -a ELSE a

RECURSIVE GCD(_, _)
GCD(a, b) == IF b = 0 THEN a ELSE GCD(b, a % b)

Q(n, d) ==
    LET s == IF d < 0 THEN -1 ELSE 1
        g == GCD(IAbs(n), IAbs(d))
    IN  <<(s * n) \div g, (s * d) \div g>>

Zero == <<0, 1>>
One == <<1, 1>>

QAdd(a, b) == Q(a[1] * b[2] + b[1] * a[2], a[2] * b[2])
QSub(a, b) == Q(a[1] * b[2] - b[1] * a[2], a[2] * b[2])
QMul(a, b) == Q(a[1] * b[1], a[2] * b[2])
QDiv(a, b) == Q(a[1] * b[2], a[2] * b[1])
QNeg(a) == <<-a[1], a[2]>>
QAbs(a) == <<IAbs(a[1]), a[2]>>
QLt(a, b) == a[1] * b[2] < b[1] * a[2]
QLe(a, b) == a[1] * b[2] <= b[1] * a[2]
QMax(a, b) == IF QLt(a, b) THEN b ELSE a
QMin(a, b) == IF QLt(b, a) THEN b ELSE a

(* Clip with the clipping left out.                                         *)
ClipNone(v, lo, hi) == v

(* np.clip(v, lo, hi) *)
Clip(v, lo, hi) == QMin(QMax(v, lo), hi)

(* round(score, 4): the result in units of 1/10000, ties to even.          *)
Round4(q) ==
    LET n == IAbs(q[1])
        t == n * 10000
        fl == t \div q[2]
        rem == t % q[2]
        r == IF 2 * rem < q[2] THEN fl
             ELSE IF 2 * rem > q[2] THEN fl + 1
             ELSE IF fl % 2 = 0 THEN fl ELSE fl + 1
    IN  IF q[1] < 0 THEN -r ELSE r

----------------------------------------------------------------------------
(* TxFeatures and the feature vector.                                      *)

None == <<>>
Some(v) == <<v>>

feature_order ==
    <<"valueUSD", "relativeValue", "timeDelta", "txCount24h",
      "gasUsed", "gasPriceGwei", "isNewCounterparty">>

NumFeatures == Len(feature_order)

(* The fields TxFeatures declares Optional[int]; the others are            *)
(* Optional[float].                                                        *)
IntFields == {"txCount24h", "isNewCounterparty"}

ToFloat(k, v) == IF k \in IntFields THEN Q(v, 1) ELSE v

(* x.append(0.0 if v is None else float(v)) for k in feature_order         *)
Vectorize(f) ==
    [i \in 1..NumFeatures |->
        IF f[feature_order[i]] = None THEN Zero
        ELSE ToFloat(feature_order[i], f[feature_order[i]][1])]

----------------------------------------------------------------------------
(* The objects a model artifact can deserialize to.  Every object is a      *)
(* record of one shape: kind is the Python type ("none" is None, "dict",    *)
(* "list", "scalar"), keys the keys a dict holds, malformed the keys whose  *)
(* value is not a number (or, for coefs, not a list of numbers).            *)

NoPipeline ==
    [named_steps |-> "missing", transform |-> "raises",
     decision_function |-> "raises"]

Obj(kind, keys, pipeline, smin, smax, type, coefs, intercept, malformed) ==
    [kind |-> kind, keys |-> keys, pipeline |-> pipeline,
     score_min |-> smin, score_max |-> smax, type |-> type,
     coefs |-> coefs, intercept |-> intercept, malformed |-> malformed]

NoneObj == Obj("none", {}, NoPipeline, Zero, Zero, "", <<>>, Zero, {})

(* The pipeline objects: a Pipeline with an 'iforest' step, a Pipeline      *)
(* without one, a bare estimator (no named_steps attribute); transform and  *)
(* decision_function either work or raise.                                  *)
Pipelines ==
    { [named_steps |-> "iforest", transform |-> "raises", decision_function |-> "ok"],
      [named_steps |-> "iforest", transform |-> "ok", decision_function |-> "ok"],
      [named_steps |-> "no_iforest", transform |-> "raises", decision_function |-> "raises"],
      [named_steps |-> "missing", transform |-> "raises", decision_function |-> "ok"] }

(* (score_min, score_max) pairs, degenerate ranges included.                *)
ScoreRanges ==
    { <<Q(-1, 10), Q(1, 2)>>, <<One, One>>, <<Q(2, 1), One>> }

(* train.py saves {'pipeline', 'score_min', 'score_max'}.                   *)
LearnedObj(p, r) ==
    Obj("dict", {"pipeline", "score_min", "score_max"}, p, r[1], r[2],
        "", <<>>, Zero, {})

PklObjects ==
    { LearnedObj(p, r) : p \in Pipelines, r \in ScoreRanges }
    \cup { Obj("dict", {"pipeline", "score_min"},
               [named_steps |-> "iforest", transform |-> "ok",
                decision_function |-> "ok"],
               Zero, Zero, "", <<>>, Zero, {}),
           NoneObj }

CoefLists ==
    { <<>>, <<2, 3>>, <<1, 0, 0, 0, 0, 0, 0>>, <<1, 1, 0, 0, 0, 0, 2, 5, 5>> }

(* Which of score_min / score_max a linear document declares.               *)
LinearRanges ==
    { [keys |-> {"score_min", "score_max"}, lo |-> Zero, hi |-> Q(1000, 1)],
      [keys |-> {}, lo |-> Zero, hi |-> Zero],
      [keys |-> {"score_min"}, lo |-> Q(100, 1), hi |-> Zero],
      [keys |-> {"score_min", "score_max"}, lo |-> Q(5, 1), hi |-> Q(2, 1)] }

(* The intercept a document gives, here fixed by its coefficient list:     *)
(* given as 0, given as 1/4, absent, or given as -5/2.                      *)
InterceptOf(coefs) ==
    IF Len(coefs) = NumFeatures THEN [keys |-> {"intercept"}, v |-> Zero]
    ELSE IF Len(coefs) = 0 THEN [keys |-> {"intercept"}, v |-> Q(1, 4)]
    ELSE IF Len(coefs) < NumFeatures THEN [keys |-> {}, v |-> Zero]
    ELSE [keys |-> {"intercept"}, v |-> Q(-5, 2)]

LinearObj(coefs, ic, r, malformed) ==
    Obj("dict", {"type", "coefs"} \cup ic.keys \cup r.keys, NoPipeline,
        r.lo, r.hi, "linear", coefs, ic.v, malformed)

ExampleLinear ==
    LinearObj(<<1, 0, 0, 0, 0, 0, 0>>, InterceptOf(<<1, 0, 0, 0, 0, 0, 0>>),
              [keys |-> {"score_min", "score_max"}, lo |-> Zero, hi |-> Q(1000, 1)],
              {})

JsonObjects ==
    { LinearObj(c, InterceptOf(c), r, {}) : c \in CoefLists, r \in LinearRanges }
    \cup { LinearObj(<<2, 3>>, InterceptOf(<<2, 3>>),
                     [keys |-> {}, lo |-> Zero, hi |-> Zero], m) :
              m \in { {"intercept"}, {"coefs"}, {"score_min"} } }
    \cup { Obj("dict", {"type", "coefs"}, NoPipeline, Zero, Zero, "ridge",
               <<2, 3>>, Zero, {}),
           Obj("list", {}, NoPipeline, Zero, Zero, "", <<>>, Zero, {}),
           Obj("scalar", {}, NoPipeline, Zero, Zero, "", <<>>, Zero, {}),
           NoneObj }

(* A file is missing, present but failing to load, or loads to an object.   *)
File(state, obj) == [state |-> state, obj |-> obj]

PklFiles ==
    { File("missing", NoneObj), File("corrupt", NoneObj) }
    \cup { File("ok", o) : o \in PklObjects }

JsonFiles ==
    { File("missing", NoneObj), File("corrupt", NoneObj) }
    \cup { File("ok", o) : o \in JsonObjects }

----------------------------------------------------------------------------
(* Import-time loading, main.py lines 12-31.                                *)

(* lines 13-19: MODEL = None; if exists: try joblib.load except: print      *)
LoadPickleResult(file) ==
    IF file.state = "ok" THEN file.obj ELSE NoneObj

(* LoadJsonResult without the test that MODEL is None.                      *)
LoadJsonAlways(model, file) ==
    IF file.state = "ok" THEN file.obj ELSE model

(* lines 22-31: only when MODEL is None; try: if exists: json.load          *)

LoadJsonResult(model, file) ==
    IF model = NoneObj
    THEN IF file.state = "ok" THEN file.obj ELSE model
    ELSE model

----------------------------------------------------------------------------
(* The /ml/anomaly handler, main.py lines 47-134.                           *)

(* What the handler hands back: the HTTP status, the JSON body, and (not    *)
(* part of the body) the branch that was entered, whether the magnitude     *)
(* came from random.random(), the raw magnitude, the score before round()   *)
(* and the ordinal of the request in the run.                               *)
Response(f, status, body, tier, degraded, raw, unrounded) ==
    [req |-> f, status |-> status, body |-> body, tier |-> tier,
     degraded |-> degraded, raw |-> raw, unrounded |-> unrounded, nth |-> 0]

(* An exception that leaves the handler: the framework answers 500.         *)
Error500(f, tier) ==
    Response(f, 500, [detail |-> "Internal Server Error"], tier, FALSE,
             Zero, Zero)

Threshold == Q(17, 20)

(* label = 'suspicious' if score > 0.85 else 'normal'                       *)
Label(score) == IF QLt(Threshold, score) THEN "suspicious" ELSE "normal"

(* lines 82-86 and 104-108: rescale on a positive range, else clip the raw  *)
(* value; then clip to [0, 1].                                              *)
Normalize(raw, smin, smax) ==
    LET score == IF QLt(Zero, QSub(smax, smin))
                 THEN QDiv(QSub(raw, smin), QSub(smax, smin))
                 ELSE Clip(raw, Zero, One)
    IN  Clip(score, Zero, One)

(* Stand-ins for the fitted scikit-learn objects held by the artifact:      *)
(* pipeline.transform (a scaler) and clf.decision_function (higher means    *)
(* more normal).  Any deterministic functions of the vector will do.        *)
PipelineTransform(X) ==
    [i \in 1..NumFeatures |->
        IF i = 1 THEN QDiv(QSub(X[1], Q(200, 1)), Q(500, 1)) ELSE X[i]]

DecisionFunction(X) == QSub(Q(1, 10), QDiv(X[1], Q(1000, 1)))

(* The values random.random() is taken to return, all in [0, 1).            *)
RandomValues == { Zero, Q(1, 2), Q(9, 10) }

(* line 62 *)
IsLearned(model) ==
    /\ model.kind # "none"
    /\ {"pipeline", "score_min", "score_max"} \subseteq model.keys

(* line 91 *)
IsLinear(model) ==
    /\ model.kind # "none"
    /\ model.kind = "dict"
    /\ "type" \in model.keys
    /\ model.type = "linear"

(* LearnedBody with the linear branch's tag copied in.                      *)
LearnedBodyTagged(score) ==
    [score |-> Round4(score), label |-> Label(score),
     model |-> "precomputed_linear"]

(* lines 63-88 *)

LearnedBody(score) == [score |-> Round4(score), label |-> Label(score)]

LearnedBranch(model, f, X, rnd) ==
    LET pipeline == model.pipeline
        X_proc == IF pipeline.transform = "ok" THEN PipelineTransform(X) ELSE X
        failed == pipeline.decision_function # "ok"
        raw == IF failed THEN rnd ELSE QNeg(DecisionFunction(X_proc))
        score == Normalize(raw, model.score_min, model.score_max)
    IN  IF pipeline.named_steps = "missing"
        THEN Error500(f, "learned")     \* line 64: AttributeError
        ELSE IF {"score_min", "score_max"} \cap model.malformed # {}
        THEN Error500(f, "learned")     \* line 82: TypeError
        ELSE Response(f, 200, LearnedBody(score), "learned", failed, raw, score)

(* AlignCoefs trimming to the last n coefficients instead of the first n.  *)
AlignKeepTail(coefs, n) ==
    IF Len(coefs) < n
    THEN coefs \o [i \in 1..(n - Len(coefs)) |-> 0]
    ELSE IF Len(coefs) > n THEN SubSeq(coefs, Len(coefs) - n + 1, Len(coefs))
    ELSE coefs

(* lines 96-100: pad with zeros or trim to the vector's length              *)
AlignCoefs(coefs, n) ==
    IF Len(coefs) < n
    THEN coefs \o [i \in 1..(n - Len(coefs)) |-> 0]
    ELSE IF Len(coefs) > n THEN SubSeq(coefs, 1, n)
    ELSE coefs

(* np.dot(arr, coef_arr) *)
RECURSIVE Dot(_, _, _)
Dot(arr, coef_arr, i) ==
    IF i = 0 THEN Zero
    ELSE QAdd(Dot(arr, coef_arr, i - 1), QMul(arr[i], Q(coef_arr[i], 1)))

(* lines 92-110 *)
LinearBody(score) ==
    [score |-> Round4(score), label |-> Label(score),
     model |-> "precomputed_linear"]

LinearBranch(model, f, X) ==
    LET coefs == IF "coefs" \in model.keys THEN model.coefs ELSE <<>>
        intercept == IF "intercept" \in model.keys THEN model.intercept ELSE Zero
        coef_arr == AlignCoefs(coefs, Len(X))
        raw == QAdd(Dot(X, coef_arr, Len(X)), intercept)
        smin == IF "score_min" \in model.keys THEN model.score_min ELSE Zero
        smax == IF "score_max" \in model.keys THEN model.score_max
                ELSE QMax(One, raw)
        score == Normalize(raw, smin, smax)
    IN  IF model.keys \cap model.malformed # {}
        THEN Error500(f, "linear")      \* float() / np.array raise
        ELSE Response(f, 200, LinearBody(score), "linear", FALSE, raw, score)

(* lines 117-119 *)
medians ==
    <<Q(200, 1), One, Q(3600, 1), Q(2, 1), Q(50000, 1), Q(30, 1), Q(1, 10)>>
stds ==
    <<Q(500, 1), Q(2, 1), Q(3600, 1), Q(2, 1), Q(20000, 1), Q(10, 1), Q(3, 10)>>
weights ==
    <<One, One, Q(1, 2), Q(3, 10), Q(1, 2), Q(1, 2), Q(4, 5)>>

(* ZScore without abs().                                                    *)
ZSigned(xi, m, s) ==
    IF QLe(s, Zero) THEN Zero ELSE QDiv(QSub(xi, m), s)

(* z = 0.0 if s <= 0 else abs((xi - m) / s) *)
ZScore(xi, m, s) ==
    IF QLe(s, Zero) THEN Zero ELSE QAbs(QDiv(QSub(xi, m), s))

(* lines 120-128: <<zsum, norm>> after the first i features                 *)
RECURSIVE HeuristicSums(_, _)
HeuristicSums(Xv, i) ==
    IF i = 0 THEN <<Zero, Zero>>
    ELSE LET prev == HeuristicSums(Xv, i - 1)
             z == ZScore(Xv[i], medians[i], stds[i])
         IN  <<QAdd(prev[1], QMul(z, weights[i])),
               QAdd(prev[2], QMul(Q(3, 1), weights[i]))>>

(* lines 129-134 *)
HeuristicBody(score) ==
    [score |-> Round4(score), label |-> Label(score), fallback |-> TRUE]

HeuristicBranch(f, X) ==
    LET sums == HeuristicSums(X, Len(X))
        zsum == sums[1]
        norm == sums[2]
        score == IF QLe(norm, Zero) THEN Zero
                 ELSE Clip(QDiv(zsum, norm), Zero, One)
    IN  Response(f, 200, HeuristicBody(score), "heuristic", FALSE, score, score)

(* random.random() is called only on line 77; elsewhere no value is drawn.  *)
RandomDraws(model) ==
    IF IsLearned(model) /\ model.pipeline.decision_function # "ok"
    THEN RandomValues ELSE {Zero}

(* The whole handler: the value returned for features f when random.random()*)
(* would return rnd.                                                        *)
Handle(model, f, rnd) ==
    LET X == Vectorize(f)
    IN  IF model.kind = "scalar"
        THEN Error500(f, "none")        \* line 62: 'pipeline' in MODEL raises
        ELSE IF IsLearned(model) THEN LearnedBranch(model, f, X, rnd)
        ELSE IF IsLinear(model) THEN LinearBranch(model, f, X)
        ELSE HeuristicBranch(f, X)

----------------------------------------------------------------------------
(* The requests: TxFeatures records after validation.  txHash, from_addr    *)
(* and to are never read by the handler and are left out.                   *)

Features(v, rel, td, cnt, gas, price, isNew) ==
    [valueUSD |-> v, relativeValue |-> rel, timeDelta |-> td,
     txCount24h |-> cnt, gasUsed |-> gas, gasPriceGwei |-> price,
     isNewCounterparty |-> isNew]

AllNone == Features(None, None, None, None, None, None, None)

(* The other five fields at the heuristic's medians.                        *)
AtMedians(v, isNew) ==
    Features(v, Some(One), Some(Q(3600, 1)), Some(2), Some(Q(50000, 1)),
             Some(Q(30, 1)), isNew)

OnlyValue(v, isNew) == Features(v, None, None, None, None, None, isNew)

ValueUSDs ==
    { Some(Zero), Some(Q(200, 1)), Some(Q(500, 1)), Some(Q(5932, 1)),
      Some(Q(50000, 1)) }

FeatureRecords ==
    { AtMedians(v, Some(0)) : v \in ValueUSDs }
    \cup { AtMedians(Some(Q(5932, 1)), Some(1)) }
    \cup { OnlyValue(v, Some(0)) : v \in { Some(Q(500, 1)), Some(Q(50000, 1)) } }
    \cup { OnlyValue(Some(Q(500, 1)), Some(1)), AllNone }

NoResp ==
    Response(AllNone, 0, [detail |-> "no request yet"], "none", FALSE,
             Zero, Zero)

NoHealth == [status |-> "no request yet", model_loaded |-> FALSE]

(* The number of scoring requests a run makes.                              *)
MaxCalls == 3

----------------------------------------------------------------------------
(* The state machine.                                                       *)

Init ==
    /\ pklFile \in PklFiles
    /\ jsonFile \in JsonFiles
    /\ \/ pklFile.state # "ok"
       \/ pklFile.obj = NoneObj
       \/ jsonFile \in { File("missing", NoneObj), File("ok", ExampleLinear) }
    /\ pc = "load_pkl"
    /\ MODEL = NoneObj
    /\ resp = NoResp
    /\ firstResp = NoResp
    /\ health = NoHealth

(* main.py lines 12-19 *)
LoadPickle ==
    /\ pc = "load_pkl"
    /\ MODEL' = LoadPickleResult(pklFile)
    /\ pc' = "load_json"
    /\ UNCHANGED <<pklFile, jsonFile, resp, firstResp, health>>

(* main.py lines 21-31 *)
LoadJson ==
    /\ pc = "load_json"
    /\ MODEL' = LoadJsonResult(MODEL, jsonFile)
    /\ pc' = "serving"
    /\ UNCHANGED <<pklFile, jsonFile, resp, firstResp, health>>

(* anomaly widening the model's score_max to the largest raw value seen.    *)
anomaly_recalibrating(f, rnd) ==
    /\ pc = "serving"
    /\ resp.nth < MaxCalls
    /\ rnd \in RandomDraws(MODEL)
    /\ resp' = [Handle(MODEL, f, rnd) EXCEPT !.nth = resp.nth + 1]
    /\ firstResp' = IF firstResp = NoResp THEN resp' ELSE firstResp
    /\ MODEL' = [MODEL EXCEPT !.score_max = QMax(@, resp'.raw)]
    /\ UNCHANGED <<pklFile, jsonFile, pc, health>>

(* POST /ml/anomaly, lines 47-134; MODEL is only read.                      *)
anomaly(f, rnd) ==
    /\ pc = "serving"
    /\ resp.nth < MaxCalls
    /\ rnd \in RandomDraws(MODEL)
    /\ resp' = [Handle(MODEL, f, rnd) EXCEPT !.nth = resp.nth + 1]
    /\ firstResp' = IF firstResp = NoResp THEN resp' ELSE firstResp
    /\ UNCHANGED <<pklFile, jsonFile, pc, MODEL, health>>

(* GET /, lines 151-153 *)
root ==
    /\ pc = "serving"
    /\ health' = [status |-> "ml_service prototype running",
                  model_loaded |-> (MODEL # NoneObj)]
    /\ UNCHANGED <<pklFile, jsonFile, pc, MODEL, resp, firstResp>>

Next ==
    \/ LoadPickle
    \/ LoadJson
    \/ \E f \in FeatureRecords, rnd \in RandomValues : anomaly(f, rnd)
    \/ root

Spec == Init /\ [][Next]_vars

----------------------------------------------------------------------------
(* Properties.  Returned scores are in units of 1/10000: 8500 is 0.85.      *)

ExtraKeys(body) == DOMAIN body \ {"score", "label"}

(* C1: every score returned by /ml/anomaly lies in [0, 1], whichever        *)
(* branch served the request and whatever raw magnitude and range were      *)
(* used, a range with score_max <= score_min included.                      *)
ScoreInUnitInterval ==
    resp.status = 200 => (resp.body.score >= 0 /\ resp.body.score <= 10000)

ScoreClippedOnDegenerateRange ==
    /\ resp.status = 200
    /\ resp.tier = "learned"
    /\ QLe(MODEL.score_max, MODEL.score_min)
    /\ QLt(One, resp.raw)
    /\ resp.body.score = 10000

(* C2: in every response the label is 'suspicious' if and only if the       *)
(* returned (rounded) score is strictly greater than 0.85.                  *)
LabelIffReturnedScoreAboveThreshold ==
    resp.status = 200 =>
        ((resp.body.label = "suspicious") <=> (resp.body.score > 8500))

(* C3: every scoring request, for any model state reached at startup and    *)
(* any feature record, completes with a result holding a score and a        *)
(* label; no failure reaches the caller as a request error.                 *)
EveryRequestGetsScoreResult ==
    resp # NoResp =>
        (resp.status = 200 /\ {"score", "label"} \subseteq DOMAIN resp.body)

(* C4 as stated: every response carries exactly one tier-specific extra     *)
(* key, for each of the three strategies.                                   *)
ExactlyOneTierKey ==
    resp.status = 200 => Cardinality(ExtraKeys(resp.body)) = 1

(* C4 as amended: a successful response carries no extra key when the       *)
(* learned pipeline served it, the key 'model' with the value               *)
(* 'precomputed_linear' for the linear model, and the key 'fallback' with   *)
(* the value true for the heuristic; so the extra keys tell the strategy.   *)
TierKeysAsReturned ==
    resp.status = 200 =>
        /\ resp.tier \in {"learned", "linear", "heuristic"}
        /\ resp.tier = "learned" <=> ExtraKeys(resp.body) = {}
        /\ resp.tier = "linear" <=> ExtraKeys(resp.body) = {"model"}
        /\ resp.tier = "heuristic" <=> ExtraKeys(resp.body) = {"fallback"}
        /\ resp.tier = "linear" => resp.body.model = "precomputed_linear"
        /\ resp.tier = "heuristic" => resp.body.fallback = TRUE

LearnedResponseHasNoTierKey ==
    /\ resp.status = 200
    /\ resp.tier = "learned"
    /\ ExtraKeys(resp.body) = {}

(* The strategy the priority chain prescribes for a loaded model.           *)
SelectedTier(model) ==
    IF {"pipeline", "score_min", "score_max"} \subseteq model.keys
    THEN "learned"
    ELSE IF model.kind = "dict" /\ "type" \in model.keys /\ model.type = "linear"
    THEN "linear"
    ELSE "heuristic"

(* C5: every request is served by the strategy a fixed priority chain on    *)
(* the loaded model alone prescribes: the learned pipeline exactly when     *)
(* the model has a pipeline, score_min and score_max; otherwise the linear  *)
(* model exactly when the model is a linear document; otherwise the         *)
(* heuristic.                                                               *)
StrategyByPriorityChain ==
    resp # NoResp => resp.tier = SelectedTier(MODEL)

(* C6: model_loaded is true exactly when a learned-pipeline artifact or a   *)
(* linear document is held, so it is false in every process whose scoring   *)
(* requests are served by the heuristic fallback.                           *)
HealthReportsUsableModel ==
    (health # NoHealth /\ resp # NoResp) =>
        (health.model_loaded <=> resp.tier \in {"learned", "linear"})

(* The model first-match order prescribes for the two artifact files.      *)
FirstMatch ==
    IF pklFile.state = "ok" /\ pklFile.obj # NoneObj THEN pklFile.obj
    ELSE IF jsonFile.state = "ok" THEN jsonFile.obj
    ELSE NoneObj

(* C7: startup always completes (no load step blocks or fails) and takes    *)
(* the artifacts in first-match order: the pipeline artifact if it loads,   *)
(* else the linear document if it loads, else no model; the document is     *)
(* the model only when no pipeline artifact was loaded.                     *)
StartupFirstMatch ==
    /\ pc = "load_pkl" => ENABLED LoadPickle
    /\ pc = "load_json" => ENABLED LoadJson
    /\ pc = "serving" => MODEL = FirstMatch

StartupFallsThroughToLinear ==
    /\ pc = "serving"
    /\ pklFile.state = "corrupt"
    /\ jsonFile.state = "ok"
    /\ IsLinear(MODEL)
    /\ MODEL = jsonFile.obj

(* The first request of the run and the latest one agree when they carry    *)
(* the same feature record and neither magnitude was drawn at random.       *)
SameInputSameResult ==
    (/\ firstResp # NoResp
     /\ resp.req = firstResp.req
     /\ ~resp.degraded
     /\ ~firstResp.degraded) =>
        (resp.status = firstResp.status /\ resp.body = firstResp.body)

(* C8: no request changes the loaded model, and two requests with the same  *)
(* feature record get the same status and body whatever ran between them,   *)
(* unless the magnitude was drawn at random.                                *)
ModelReadOnlyAndDeterministic ==
    /\ [][pc = "serving" => MODEL' = MODEL]_vars
    /\ []SameInputSameResult

RepeatedLinearRequest ==
    /\ resp.nth = MaxCalls
    /\ resp.req = firstResp.req
    /\ resp.status = 200
    /\ IsLinear(MODEL)
    /\ health # NoHealth

(* The i-th coefficient of a list read as right-padded with zeros.         *)
CoefAt(coefs, i) == IF i <= Len(coefs) THEN coefs[i] ELSE 0

RECURSIVE PaddedDot(_, _, _)
PaddedDot(x, coefs, i) ==
    IF i = 0 THEN Zero
    ELSE QAdd(PaddedDot(x, coefs, i - 1), QMul(x[i], Q(CoefAt(coefs, i), 1)))

ExpectedLinearRaw(model, f) ==
    QAdd(PaddedDot(Vectorize(f), model.coefs, NumFeatures),
         IF "intercept" \in model.keys THEN model.intercept ELSE Zero)

ExpectedLinearScore(model, raw) ==
    LET lo == IF "score_min" \in model.keys THEN model.score_min ELSE Zero
        hi == IF "score_max" \in model.keys THEN model.score_max
              ELSE IF QLt(One, raw) THEN raw ELSE One
        v == IF QLt(lo, hi) THEN QDiv(QSub(raw, lo), QSub(hi, lo)) ELSE raw
    IN  IF QLt(v, Zero) THEN 0 ELSE IF QLt(One, v) THEN 10000 ELSE Round4(v)

(* C9: in the linear branch raw = intercept + sum of x[i] * c[i], where     *)
(* c[i] is the i-th coefficient, or 0 beyond the list's end, and            *)
(* coefficients beyond the 7th are ignored; a length mismatch is never an   *)
(* error; score_min defaults to 0 and score_max to max(1, raw); the         *)
(* documented example gives raw 500, score 0.5, tag precomputed_linear.     *)
LinearRawAlignedWithDefaults ==
    /\ (resp # NoResp /\ IsLinear(MODEL) /\ MODEL.malformed = {}) =>
            (resp.status = 200 /\ resp.tier = "linear")
    /\ (resp.status = 200 /\ resp.tier = "linear") =>
            /\ resp.raw = ExpectedLinearRaw(MODEL, resp.req)
            /\ resp.body.score = ExpectedLinearScore(MODEL, resp.raw)
            /\ resp.body.model = "precomputed_linear"
    /\ (resp # NoResp /\ MODEL = ExampleLinear
            /\ resp.req = OnlyValue(Some(Q(500, 1)), Some(0))) =>
            /\ resp.raw = Q(500, 1)
            /\ resp.body.score = 5000
            /\ resp.body.model = "precomputed_linear"

LinearTruncatedWithDefaultRange ==
    /\ resp.status = 200
    /\ resp.tier = "linear"
    /\ Len(MODEL.coefs) > NumFeatures
    /\ MODEL.keys \cap {"score_min", "score_max"} = {}
    /\ resp.req = AtMedians(Some(Q(5932, 1)), Some(1))
    /\ resp.raw = Q(11865, 2)
    /\ resp.body.score = 10000

(* The first and the latest request were both served by the heuristic,     *)
(* differ at most in valueUSD, and the latest has the larger valueUSD.      *)
DifferOnlyInValueUSD(f, g) ==
    \A i \in 2..NumFeatures : f[feature_order[i]] = g[feature_order[i]]

ValueUSDOf(f) == Vectorize(f)[1]

HeuristicPair ==
    /\ firstResp # NoResp
    /\ firstResp.tier = "heuristic"
    /\ resp.tier = "heuristic"
    /\ DifferOnlyInValueUSD(firstResp.req, resp.req)
    /\ QLe(ValueUSDOf(firstResp.req), ValueUSDOf(resp.req))

(* C10 as stated: in the heuristic tier, of two requests that differ only   *)
(* in valueUSD the one with the larger valueUSD gets a score that is not    *)
(* smaller; the vector at all seven medians gets 0.0, 'normal', fallback.   *)
HeuristicMonotoneInValueUSD ==
    /\ HeuristicPair => firstResp.body.score <= resp.body.score
    /\ (resp.tier = "heuristic" /\ Vectorize(resp.req) = medians) =>
            (resp.body.score = 0 /\ resp.body.label = "normal"
                /\ resp.body.fallback = TRUE)

(* C10 as amended: the score does not decrease as valueUSD increases from   *)
(* the median 200 upwards; isNewCounterparty is an integer, so no request   *)
(* is at all seven medians: the request at the other six medians with       *)
(* isNewCounterparty = 0 gets 0.0193, 'normal' and the fallback tag, and    *)
(* no heuristic score is below that.                                        *)
HeuristicMonotoneAboveMedian ==
    /\ (HeuristicPair /\ QLe(medians[1], ValueUSDOf(firstResp.req))) =>
            firstResp.body.score <= resp.body.score
    /\ resp.tier = "heuristic" => resp.body.score >= 193
    /\ (resp.tier = "heuristic"
            /\ resp.req = AtMedians(Some(Q(200, 1)), Some(0))) =>
            (resp.body.score = 193 /\ resp.body.label = "normal"
                /\ resp.body.fallback = TRUE)

HeuristicScoreGrowsAboveMedian ==
    /\ HeuristicPair
    /\ firstResp.req = AtMedians(Some(Q(200, 1)), Some(0))
    /\ resp.req = AtMedians(Some(Q(5932, 1)), Some(0))
    /\ firstResp.body.score = 193
    /\ resp.body.score = 8500
    /\ resp.body.label = "suspicious"

====
